---- MODULE Spec2Model ----
(***************************************************************************)
(* URLToDocument.py: a batch driver that reads URLs from a table, fetches  *)
(* each one into a files directory, extracts its text and writes the       *)
(* collected records to content.csv.                                       *)
(*                                                                         *)
(* Strings are sequences of one-character strings.  Python's None is the   *)
(* one-element sequence NoneValue, which is no string of characters.       *)
(***************************************************************************)
EXTENDS Integers, Sequences, FiniteSets, TLC

VARIABLES columns, URL_COLUMN, rows, pc, ind, content, files, contentCsv,
          csvWrites, reportedColumns, exitStatus, rowLog, lastExtract

vars == <<columns, URL_COLUMN, rows, pc, ind, content, files, contentCsv,
          csvWrites, reportedColumns, exitStatus, rowLog, lastExtract>>

\* Largest number of rows of the input table.
MaxRows == 2

NoneValue == <<"None">>
NaNCell == <<"NaN">>
PageRaise == <<"PageError">>

Whitespace == {" ", "\n"}

PdfExt == <<".", "p", "d", "f">>
HtmlExt == <<".", "h", "t", "m", "l">>

-----------------------------------------------------------------------------
(* String helpers (Python str methods and re.sub as used by the script) *)

Last(s) == s[Len(s)]
Front(s) == SubSeq(s, 1, Len(s) - 1)

\* str.replace(old, new) for single characters
Replace(s, old, new) == [i \in 1..Len(s) |-> IF s[i] = old THEN new ELSE s[i]]

\* str.split(sep) for a one-character separator: always count(sep)+1 pieces
RECURSIVE SplitOn(_, _)
SplitOn(s, sep) ==
    IF \A i \in 1..Len(s) : s[i] # sep
    THEN <<s>>
    ELSE LET i == CHOOSE k \in 1..Len(s) :
                     s[k] = sep /\ \A j \in 1..(k-1) : s[j] # sep
         IN <<SubSeq(s, 1, i - 1)>> \o SplitOn(SubSeq(s, i + 1, Len(s)), sep)

\* str.splitlines(): no pieces for the empty string, no empty piece after a
\* final line break
SplitLines(s) ==
    LET p == SplitOn(s, "\n")
    IN IF s = <<>> THEN <<>>
       ELSE IF Last(p) = <<>> THEN Front(p) ELSE p

\* sep.join(pieces)
RECURSIVE JoinWith(_, _)
JoinWith(pieces, sep) ==
    IF pieces = <<>> THEN <<>>
    ELSE IF Len(pieces) = 1 THEN pieces[1]
    ELSE pieces[1] \o sep \o JoinWith(Tail(pieces), sep)

\* str.strip()
RECURSIVE LStrip(_)
LStrip(s) == IF s # <<>> /\ s[1] \in Whitespace THEN LStrip(Tail(s)) ELSE s
RECURSIVE RStrip(_)
RStrip(s) == IF s # <<>> /\ Last(s) \in Whitespace THEN RStrip(Front(s)) ELSE s
Strip(s) == RStrip(LStrip(s))

\* re.sub(r' +', ' ', s)
RECURSIVE CollapseSpaces(_)
CollapseSpaces(s) ==
    IF Len(s) < 2 THEN s
    ELSE IF s[1] = " " /\ s[2] = " " THEN CollapseSpaces(Tail(s))
    ELSE <<s[1]>> \o CollapseSpaces(Tail(s))

\* str.split("  "): split at each non-overlapping double space, left to right
RECURSIVE SplitDouble(_)
SplitDouble(s) ==
    IF \A i \in 1..(Len(s) - 1) : ~(s[i] = " " /\ s[i+1] = " ")
    THEN <<s>>
    ELSE LET i == CHOOSE k \in 1..(Len(s) - 1) :
                     /\ s[k] = " " /\ s[k+1] = " "
                     /\ \A j \in 1..(k-1) : ~(s[j] = " " /\ s[j+1] = " ")
         IN <<SubSeq(s, 1, i - 1)>> \o SplitDouble(SubSeq(s, i + 2, Len(s)))

RECURSIVE Flatten(_)
Flatten(ss) == IF ss = <<>> THEN <<>> ELSE ss[1] \o Flatten(Tail(ss))

NonEmpty(p) == p # <<>>

-----------------------------------------------------------------------------
(* pathlib.Path(url).stem and .suffix *)

IsPathPart(p) == p # <<>> /\ p # <<".">>

\* Path(url).name: the last component; empty components and "." are dropped
PathName(url) ==
    LET parts == SelectSeq(SplitOn(url, "/"), IsPathPart)
    IN IF parts = <<>> THEN <<>> ELSE Last(parts)

\* name.rfind('.') as a 1-based position, 0 when there is no dot
LastDot(name) ==
    IF \A i \in 1..Len(name) : name[i] # "." THEN 0
    ELSE CHOOSE k \in 1..Len(name) :
             name[k] = "." /\ \A j \in (k+1)..Len(name) : name[j] # "."

HasSuffix(name) == LET i == LastDot(name) IN 1 < i /\ i < Len(name)

PathSuffix(url) ==
    LET name == PathName(url)
    IN IF HasSuffix(name) THEN SubSeq(name, LastDot(name), Len(name)) ELSE <<>>

PathStem(url) ==
    LET name == PathName(url)
    IN IF HasSuffix(name) THEN SubSeq(name, 1, LastDot(name) - 1) ELSE name

-----------------------------------------------------------------------------
(* Text Extractor *)

StripEach(ss) == [i \in 1..Len(ss) |-> Strip(ss[i])]

\* getTextfromHTML, applied to the text soup.get_text() produced
getTextfromHTML(text) ==
    LET lines == StripEach(SplitLines(text))
        phrases == Flatten([i \in 1..Len(lines) |-> SplitDouble(lines[i])])
        chunks == StripEach(phrases)
    IN JoinWith(SelectSeq(chunks, NonEmpty), <<"\n">>)

\* The while loop of pdfToText: a page whose extractText() raises leaves text
\* unchanged
RECURSIVE PagesText(_, _)
PagesText(pages, text) ==
    IF pages = <<>> THEN text
    ELSE IF pages[1] = PageRaise THEN PagesText(Tail(pages), text)
    ELSE IF text # <<>>
         THEN PagesText(Tail(pages), text \o <<"\n">> \o pages[1])
         ELSE PagesText(Tail(pages), pages[1])

\* The clean-up lines at the end of pdfToText
CleanUp(text) ==
    LET t1 == Replace(text, ",", " ")
        t2 == JoinWith(SplitLines(t1), <<" ">>)
    IN CollapseSpaces(Strip(t2))

\* pdfToText: open() is outside the try block; a reader or getPage failure
\* returns ""; the path that reads all pages ends without a return statement
\* and so yields None.  text is the local variable when the function ends.
pdfToText(rd, doc) ==
    IF rd = "openfail"
    THEN [raised |-> TRUE, ret |-> <<>>, text |-> <<>>]
    ELSE IF doc.parse # "ok"
    THEN [raised |-> FALSE, ret |-> <<>>, text |-> <<>>]
    ELSE [raised |-> FALSE, ret |-> NoneValue,
          text |-> CleanUp(PagesText(doc.pages, <<>>))]

getTextFromFile(ext, rd, doc) ==
    IF ext = PdfExt
    THEN pdfToText(rd, doc)
    ELSE IF rd = "openfail"
    THEN [raised |-> TRUE, ret |-> <<>>, text |-> <<>>]
    ELSE [raised |-> FALSE, ret |-> getTextfromHTML(doc.text),
          text |-> getTextfromHTML(doc.text)]

-----------------------------------------------------------------------------
(* Document Processor and Resource Fetcher *)

Url(cell) == Strip(cell)

FileExt(cell) == IF PathSuffix(Url(cell)) = PdfExt THEN PdfExt ELSE HtmlExt

FileName(cell) == Replace(PathStem(Url(cell)), "?", "_")

FilePath(cell) == FileName(cell) \o FileExt(cell)

\* Outcomes of the body of getUrl: requests.get returns a response ("ok", or
\* "httperr" for a response with an error status), requests.get raises
\* ("neterr"), open(fileOut) raises ("fsopen"), outfile.write raises after
\* the file was created or truncated ("fswrite").
NetOutcomes == {"ok", "httperr", "neterr", "fsopen", "fswrite"}

\* a mutation of getUrl: the except branch returns True as well
getUrlAlwaysTrue(net) == TRUE

getUrl(net) == net \in {"ok", "httperr"}

FilesAfterGetUrl(fs, path, net, i) ==
    IF net \in {"ok", "httperr", "fswrite"}
    THEN {f \in fs : f.path # path} \cup {[path |-> path, row |-> i]}
    ELSE fs

-----------------------------------------------------------------------------
(* Inputs *)

UA == <<"h", ":", "/", "/", "a", ".", "c", "/">>
UB == <<"h", ":", "/", "/", "b", ".", "c", "/">>

Cells ==
    { UA \o <<"d">>,
      <<" ">> \o UB \o <<"d", " ">>,
      UA \o <<"d">> \o PdfExt,
      UA \o <<"d">> \o PdfExt \o <<"?", "v">>,
      UA \o <<"e", "?", "v">>,
      NaNCell }

EmptyDoc == [parse |-> "ok", pages |-> <<>>, text |-> <<>>]

\* PDF documents: what PdfFileReader, getPage and extractText do with them
PdfDocs ==
    { [parse |-> "corrupt", pages |-> <<>>, text |-> <<>>],
      [parse |-> "pagefail", pages |-> << <<"a">> >>, text |-> <<>>],
      [parse |-> "ok", pages |-> << <<"a", "\n">>, <<"b">> >>, text |-> <<>>],
      [parse |-> "ok",
       pages |-> << <<>>, <<" ", "a", ",", " ", "b", "\n">>, PageRaise, <<"c", " ">> >>,
       text |-> <<>>] }

\* HTML documents: the text soup.get_text() returns for them
HtmlDocs ==
    { EmptyDoc,
      [parse |-> "ok", pages |-> <<>>,
       text |-> <<"a", " ", " ", "b", "\n", "\n", " ", "c", " ">>] }

DocsFor(ext) == IF ext = PdfExt THEN PdfDocs ELSE HtmlDocs

\* The locals of processURL before the fetch, for every string cell
ProcessUrlLocals ==
    [cell \in Cells \ {NaNCell} |->
        [url |-> Url(cell), name |-> FileName(cell),
         ext |-> FileExt(cell), path |-> FilePath(cell)]]

\* The outcome of getTextFromFile for every extension, open outcome and document
ExtractResult ==
    [ext \in {PdfExt, HtmlExt} |->
        [rd \in {"ok", "openfail"} |->
            [doc \in PdfDocs \cup HtmlDocs |-> getTextFromFile(ext, rd, doc)]]]

Tables == UNION {[1..n -> Cells] : n \in 0..MaxRows}

ColumnSets == {{"url"}, {"link", "id"}}

-----------------------------------------------------------------------------
(* Batch Driver *)

\* exit(0) on the missing-column path
ExitCodeMissingColumn == 0
\* interpreter exit status after main() returns
ExitCodeNormal == 0

NoExtract == [kind |-> "none", rd |-> "ok", doc |-> EmptyDoc, text |-> <<>>,
              ret |-> <<>>, raised |-> FALSE]

Init ==
    /\ columns \in ColumnSets
    /\ URL_COLUMN \in {"url", "link"}
    /\ rows \in Tables
    /\ pc = "validating"
    /\ ind = 1
    /\ content = <<>>
    /\ files = {}
    /\ contentCsv = <<>>
    /\ csvWrites = 0
    /\ reportedColumns = {}
    /\ exitStatus = <<>>
    /\ rowLog = <<>>
    /\ lastExtract = NoExtract

\* a mutation of HasUrlColumn: the column check always passes
HasUrlColumnUnchecked(cols, name) == TRUE

\* `URL_COLUMN in list(urls_df.columns)`
HasUrlColumn(cols, name) == name \in cols

\* row[URL_COLUMN] raises KeyError when the row has no such key
RowKeyError == URL_COLUMN \notin columns

\* read_csv and the column check
Validate ==
    /\ pc = "validating"
    /\ IF ~HasUrlColumn(columns, URL_COLUMN)
       THEN /\ reportedColumns' = columns
            /\ pc' = "failed"
            /\ exitStatus' = <<ExitCodeMissingColumn>>
       ELSE /\ pc' = "processing"
            /\ UNCHANGED <<reportedColumns, exitStatus>>
    /\ UNCHANGED <<columns, URL_COLUMN, rows, ind, content, files, contentCsv,
                   csvWrites, rowLog, lastExtract>>

\* a mutation of LoopFinished: the loop ends one row early
LoopFinishedEarly(i) == i >= Len(rows)

\* the for loop over urls_df.iterrows() is exhausted
LoopFinished(i) == i > Len(rows)

\* a mutation of NextInd: a row without a record ends the loop
NextIndStopOnFailure(i, result) ==
    IF result = "record" THEN i + 1 ELSE Len(rows) + 1

\* the loop moves to the next row whatever the row's outcome was
NextInd(i, result) == i + 1

\* `if result: content.append(result)`
Appended(c, result, rec) == IF result = "record" THEN Append(c, rec) ELSE c

\* One loop iteration up to the point where processURL blocks in
\* requests.get.  row[URL_COLUMN] in the progress line is outside the try
\* block; url.strip() on a cell that is no string raises inside it.
StartRow ==
    /\ pc = "processing"
    /\ ~LoopFinished(ind)
    /\ IF RowKeyError
       THEN /\ pc' = "crashed"
            /\ exitStatus' = <<1>>
            /\ UNCHANGED <<ind, rowLog>>
       ELSE IF rows[ind] = NaNCell
       THEN /\ rowLog' = Append(rowLog, [ind |-> ind, cell |-> rows[ind],
                                          fetch |-> "nofetch", ret |-> FALSE,
                                          result |-> "raised", path |-> <<>>])
            /\ ind' = NextInd(ind, "raised")
            /\ UNCHANGED <<pc, exitStatus>>
       ELSE /\ pc' = "fetching"
            /\ UNCHANGED <<ind, rowLog, exitStatus>>
    /\ UNCHANGED <<columns, URL_COLUMN, rows, content, files, contentCsv,
                   csvWrites, reportedColumns, lastExtract>>

\* requests.get returns or raises; the rest of getUrl, processURL and the
\* loop body follow.
FetchReturns ==
    /\ pc = "fetching"
    /\ LET loc == ProcessUrlLocals[rows[ind]]
       IN \E net \in NetOutcomes, rd \in {"ok", "openfail"}, doc \in DocsFor(loc.ext) :
            LET ok == getUrl(net)
                ex == ExtractResult[loc.ext][rd][doc]
                result == IF ~ok THEN "none"
                          ELSE IF ex.raised THEN "raised" ELSE "record"
                rec == [name |-> loc.name, ext |-> loc.ext,
                        url |-> loc.url, text |-> ex.ret]
            IN /\ files' = FilesAfterGetUrl(files, loc.path, net, ind)
               /\ content' = Appended(content, result, rec)
               /\ rowLog' = Append(rowLog, [ind |-> ind, cell |-> rows[ind],
                                             fetch |-> net, ret |-> ok,
                                             result |-> result, path |-> loc.path])
               /\ lastExtract' =
                    IF ok
                    THEN [kind |-> IF loc.ext = PdfExt THEN "pdf" ELSE "html",
                          rd |-> rd, doc |-> doc, text |-> ex.text,
                          ret |-> ex.ret, raised |-> ex.raised]
                    ELSE lastExtract
               /\ ind' = NextInd(ind, result)
    /\ pc' = "processing"
    /\ UNCHANGED <<columns, URL_COLUMN, rows, contentCsv, csvWrites,
                   reportedColumns, exitStatus>>

\* DataFrame.from_dict(content).to_csv(content_csv), then main returns
WriteTable ==
    /\ pc = "processing"
    /\ LoopFinished(ind)
    /\ contentCsv' = content
    /\ csvWrites' = csvWrites + 1
    /\ pc' = "done"
    /\ exitStatus' = <<ExitCodeNormal>>
    /\ UNCHANGED <<columns, URL_COLUMN, rows, ind, content, files,
                   reportedColumns, rowLog, lastExtract>>

\* The process is terminated from outside while main is running
Interrupt ==
    /\ pc \in {"validating", "processing", "fetching"}
    /\ pc' = "interrupted"
    /\ UNCHANGED <<columns, URL_COLUMN, rows, ind, content, files, contentCsv,
                   csvWrites, reportedColumns, exitStatus, rowLog, lastExtract>>

Next == Validate \/ StartRow \/ FetchReturns \/ WriteTable \/ Interrupt

Spec == Init /\ [][Next]_vars

\* Every step of the program itself is eventually taken: requests.get
\* returns, and nothing but an outside interrupt stops the interpreter.
FairSpec ==
    /\ Init /\ [][Next]_vars
    /\ WF_vars(Validate) /\ WF_vars(StartRow)
    /\ WF_vars(FetchReturns) /\ WF_vars(WriteTable)

-----------------------------------------------------------------------------
(* Properties *)

Attempted == 1..Len(rowLog)
RecordRows == SelectSeq(rowLog, LAMBDA e : e.result = "record")
RecordPath(rec) == rec.name \o rec.ext
EndsWith(s, t) == Len(s) >= Len(t) /\ SubSeq(s, Len(s) - Len(t) + 1, Len(s)) = t

\* C1: with the URL column present, rows are attempted once each in input
\* order, a row that returns None or raises does not stop later rows, and the
\* result sequence is the subsequence of rows that returned a record; one
\* unreachable URL among N otherwise good rows leaves N-1 records.
RowIsolationAndOrder ==
    URL_COLUMN \in columns =>
      /\ \A i \in Attempted : rowLog[i].ind = i /\ rowLog[i].cell = rows[i]
      /\ Len(rowLog) <= Len(rows)
      /\ pc = "done" => Len(rowLog) = Len(rows)
      /\ Len(content) = Len(RecordRows)
      /\ \A k \in 1..Len(content) :
            /\ content[k].url = Strip(rows[RecordRows[k].ind])
            /\ \A j \in 1..(k-1) : RecordRows[j].ind < RecordRows[k].ind
      /\ ( /\ pc = "done"
           /\ Cardinality({i \in Attempted : rowLog[i].fetch = "neterr"}) = 1
           /\ \A i \in Attempted :
                 rowLog[i].fetch # "neterr" => rowLog[i].result = "record" )
         => Len(content) = Len(rows) - 1

RowIsolationWitness ==
    /\ pc = "done" /\ Len(rows) = 2
    /\ rowLog[1].fetch = "neterr" /\ rowLog[2].result = "record"
    /\ Len(content) = 1

\* C2: when the URL column is absent the run reports the available columns
\* and stops before any row: no fetch, no file, no output table.
FatalPathNoOutput ==
    URL_COLUMN \notin columns =>
      /\ pc \in {"validating", "failed", "interrupted"}
      /\ rowLog = <<>> /\ content = <<>> /\ files = {}
      /\ csvWrites = 0 /\ contentCsv = <<>>
      /\ pc = "failed" => reportedColumns = columns

FatalPathWitness ==
    /\ URL_COLUMN \notin columns /\ pc = "failed" /\ Len(rows) = 2
    /\ reportedColumns = columns

\* C3: a run that fails the column check ends with a non-zero exit status,
\* different from that of a run that completed the loop.
MissingColumnExitsNonZero ==
    pc = "failed" => exitStatus # <<>> /\ exitStatus[1] # 0
                      /\ exitStatus # <<ExitCodeNormal>>

\* The path component of a URL (RFC 3986): what precedes the first ? or #.
UrlPathPart(url) ==
    LET cut == {i \in 1..Len(url) : url[i] \in {"?", "#"}}
    IN IF cut = {} THEN url
       ELSE SubSeq(url, 1, (CHOOSE i \in cut : \A j \in cut : i <= j) - 1)

\* C4: the stored file and the record use .pdf exactly when the URL's path
\* component ends in .pdf, and .html otherwise.
ExtensionFollowsUrlPath ==
    /\ \A i \in Attempted :
          rowLog[i].fetch # "nofetch" =>
             /\ EndsWith(rowLog[i].path, PdfExt)
                  <=> EndsWith(UrlPathPart(Url(rowLog[i].cell)), PdfExt)
             /\ EndsWith(rowLog[i].path, PdfExt) \/ EndsWith(rowLog[i].path, HtmlExt)
    /\ \A k \in 1..Len(content) :
          content[k].ext = IF EndsWith(UrlPathPart(content[k].url), PdfExt)
                           THEN PdfExt ELSE HtmlExt

\* C5: a retrieval that ends in a network error, an error status response or
\* a filesystem error makes getUrl return False and yields no record.
FetchErrorsYieldNoRecord ==
    \A i \in Attempted :
       rowLog[i].fetch \in {"neterr", "httperr", "fsopen", "fswrite"} =>
          ~rowLog[i].ret /\ rowLog[i].result = "none"

NoComma(t) == \A i \in 1..Len(t) : t[i] # ","
NoLineBreak(t) == \A i \in 1..Len(t) : t[i] # "\n"
NoSpaceRun(t) == \A i \in 1..(Len(t) - 1) : ~(t[i] = " " /\ t[i+1] = " ")
Trimmed(t) == t = <<>> \/ (t[1] \notin Whitespace /\ t[Len(t)] \notin Whitespace)
IsNormalizedString(t) ==
    t # NoneValue /\ NoComma(t) /\ NoLineBreak(t) /\ NoSpaceRun(t) /\ Trimmed(t)

\* C6: for a PDF that opens and whose pages are read, pdfToText returns a
\* string, the normalized page texts, and the record's text is that string.
PdfTextIsNormalizedString ==
    /\ ( lastExtract.kind = "pdf" /\ lastExtract.rd = "ok"
         /\ lastExtract.doc.parse = "ok" )
       => /\ IsNormalizedString(lastExtract.ret)
          /\ lastExtract.ret = lastExtract.text
    /\ \A k \in 1..Len(content) :
          content[k].ext = PdfExt => IsNormalizedString(content[k].text)

\* C7: extraction never raises to its caller, whatever the file; a fetched
\* PDF that fails to parse still gives a record with empty text.
ExtractionNeverRaises ==
    /\ ~lastExtract.raised
    /\ \A i \in Attempted : rowLog[i].ret => rowLog[i].result = "record"
    /\ ( lastExtract.kind = "pdf" /\ lastExtract.doc.parse = "corrupt"
         /\ pc = "processing" )
       => content # <<>> /\ content[Len(content)].text = <<>>

\* C8: every record of the result sequence has its file name+ext in the
\* files directory.
RecordHasFile ==
    \A k \in 1..Len(content) : \E f \in files : f.path = RecordPath(content[k])

RecordHasFileWitness ==
    /\ Len(rowLog) = 2 /\ Len(content) = 1
    /\ rowLog[1].result = "record" /\ rowLog[2].fetch = "fswrite"
    /\ rowLog[2].path = rowLog[1].path

Fetched == {i \in Attempted : rowLog[i].ret}

\* C9: distinct successfully fetched URLs are stored in distinct files, and
\* after the run there are as many retrieved files as fetched URLs.
OneFilePerFetchedUrl ==
    /\ \A i, j \in Fetched :
          Url(rowLog[i].cell) # Url(rowLog[j].cell) => rowLog[i].path # rowLog[j].path
    /\ pc = "done" =>
          Cardinality({f \in files : f.row \in Fetched})
             = Cardinality({Url(rowLog[i].cell) : i \in Fetched})

LifeCycleSafe ==
    /\ csvWrites <= 1
    /\ csvWrites = 1 <=> pc = "done"
    /\ pc = "done" => contentCsv = content /\ Len(rowLog) = Len(rows)
    /\ pc \in {"failed", "interrupted"} => csvWrites = 0 /\ contentCsv = <<>>

\* C10: a run that passes the column check, whose fetches all return and
\* that is not interrupted reaches DONE whatever the rows' outcomes; the
\* output table is written once, after all rows, with the accumulated
\* records; a FAILED or interrupted run has written no table.
DriverLifeCycle ==
    /\ []LifeCycleSafe
    /\ [](pc # "interrupted") => ((pc = "processing") ~> (pc = "done"))

DriverLifeCycleWitness ==
    /\ pc = "done" /\ Len(rows) = 2 /\ content = <<>> /\ csvWrites = 1
    /\ rowLog[1].result = "raised" /\ rowLog[2].result = "none"

====
